---------------------------- MODULE Spec2Model ----------------------------
(***************************************************************************)
(* The two analyzers of the repository:                                    *)
(*   - CodeAnalyzer            (src/gcode_parser_marlin.py)                *)
(*   - CPPVariabilityAnalyzer  (src/parser_marlin.py)                      *)
(* A text is a sequence of one-character strings, so that strip, split,    *)
(* startswith and the regular expressions are computed character by        *)
(* character as Python computes them.  A run executes one of the two       *)
(* scripts (prog) over the files the directory walk supplies.              *)
(***************************************************************************)
EXTENDS Integers, Sequences, FiniteSets, TLC

(***************************************************************************)
(* Bounds of the model.                                                    *)
(***************************************************************************)
\* files the walk supplies in one run
MaxFiles == 2
\* lines read in one run, over all files
MaxLines == 2
\* pieces a condition of the feature-extraction specification is built from
MaxCondLen == 5

(***************************************************************************)
(* Characters and character classes.                                       *)
(***************************************************************************)
Lower == {"a","b","c","d","e","f","g","h","i","j","k","l","m",
          "n","o","p","q","r","s","t","u","v","w","x","y","z"}
Upper == {"A","B","C","D","E","F","G","H","I","J","K","L","M",
          "N","O","P","Q","R","S","T","U","V","W","X","Y","Z"}
Digit == {"0","1","2","3","4","5","6","7","8","9"}

\* \s of the re module, and the whitespace of str.strip / str.split
IsSpace(c) == c = " " \/ c = "\t" \/ c = "\n"
\* \w of the re module
IsWord(c) == c \in Lower \/ c \in Upper \/ c \in Digit \/ c = "_"
\* [A-Za-z_]
IsIdentStart(c) == c \in Lower \/ c \in Upper \/ c = "_"
\* [A-Za-z0-9_]
IsIdentChar(c) == c \in Lower \/ c \in Upper \/ c \in Digit \/ c = "_"
\* [0-9]
IsDigit(c) == c \in Digit

\* the text s has the text p at position i
HasPrefixAt(s, i, p) ==
    /\ i + Len(p) - 1 <= Len(s)
    /\ \A k \in 1..Len(p) : s[i + k - 1] = p[k]

\* str.startswith
StartsWith(s, p) == HasPrefixAt(s, 1, p)

\* \b of the re module at position i: between s[i-1] and s[i]
WordBoundary(s, i) ==
    LET before == i - 1 >= 1 /\ i - 1 <= Len(s) /\ IsWord(s[i - 1])
        after  == i >= 1 /\ i <= Len(s) /\ IsWord(s[i])
    IN  before # after

\* the position after the longest run of whitespace starting at i (\s*)
RECURSIVE SkipSpace(_, _)
SkipSpace(s, i) ==
    IF i <= Len(s) /\ IsSpace(s[i]) THEN SkipSpace(s, i + 1) ELSE i

\* the position after the longest run of \w characters starting at i (\w+)
RECURSIVE SkipWord(_, _)
SkipWord(s, i) ==
    IF i <= Len(s) /\ IsWord(s[i]) THEN SkipWord(s, i + 1) ELSE i

\* the position after the longest run of [A-Za-z0-9_] starting at i
RECURSIVE SkipIdent(_, _)
SkipIdent(s, i) ==
    IF i <= Len(s) /\ IsIdentChar(s[i]) THEN SkipIdent(s, i + 1) ELSE i

\* the position after the longest run of non-whitespace starting at i
RECURSIVE SkipNonSpace(_, _)
SkipNonSpace(s, i) ==
    IF i <= Len(s) /\ ~IsSpace(s[i]) THEN SkipNonSpace(s, i + 1) ELSE i

\* the position before the longest run of whitespace ending at i
RECURSIVE SkipSpaceBack(_, _)
SkipSpaceBack(s, i) ==
    IF i >= 1 /\ IsSpace(s[i]) THEN SkipSpaceBack(s, i - 1) ELSE i

\* str.strip(): leading and trailing whitespace removed
Strip(s) == SubSeq(s, SkipSpace(s, 1), SkipSpaceBack(s, Len(s)))

\* str.isdigit(): not empty and only digits
IsDigitStr(s) == Len(s) > 0 /\ \A k \in 1..Len(s) : IsDigit(s[k])

\* len(line.split()): the number of whitespace-separated words
WordCount(s) ==
    Cardinality({k \in 1..Len(s) :
                    ~IsSpace(s[k]) /\ (k = 1 \/ IsSpace(s[k - 1]))})

\* line.split(maxsplit=1)[1]: what follows the first word and the whitespace
\* after it (for a text with at least two words)
SplitRest(s) ==
    LET start == SkipSpace(s, 1)
        stop  == SkipNonSpace(s, start)
        rest  == SkipSpace(s, stop)
    IN  SubSeq(s, rest, Len(s))

(***************************************************************************)
(* The texts the programs name.                                            *)
(***************************************************************************)
kw_ifdef  == <<"i","f","d","e","f">>
kw_ifndef == <<"i","f","n","d","e","f">>
kw_if     == <<"i","f">>
kw_elif   == <<"e","l","i","f">>
kw_else   == <<"e","l","s","e">>
kw_endif  == <<"e","n","d","i","f">>
kw_define == <<"d","e","f","i","n","e">>
kw_undef  == <<"u","n","d","e","f">>
kw_defined == <<"d","e","f","i","n","e","d">>

\* the alternation of the directive pattern, in its order, with the name
\* each keyword is counted under
Keywords ==
    << [text |-> kw_ifdef,  name |-> "ifdef"],
       [text |-> kw_ifndef, name |-> "ifndef"],
       [text |-> kw_if,     name |-> "if"],
       [text |-> kw_elif,   name |-> "elif"],
       [text |-> kw_else,   name |-> "else"],
       [text |-> kw_endif,  name |-> "endif"],
       [text |-> kw_define, name |-> "define"],
       [text |-> kw_undef,  name |-> "undef"] >>

NoMatch == [directive |-> "none", macro |-> <<>>]


(***************************************************************************)
(* CodeAnalyzer: the directive pattern and the instruction pattern.        *)
(***************************************************************************)
\* re.match(r'#\s*(ifdef|ifndef|if|elif|else|endif|define|undef)\b\s*(\w+)?',
\* line): group 1 as directive, group 2 as macro (<<>> when it is None)
DirectiveMatch(line) ==
    IF ~StartsWith(line, <<"#">>) THEN NoMatch
    ELSE
      LET p == SkipSpace(line, 2)
          hits == {k \in 1..Len(Keywords) :
                      /\ HasPrefixAt(line, p, Keywords[k].text)
                      /\ WordBoundary(line, p + Len(Keywords[k].text))}
      IN  IF hits = {} THEN NoMatch
          ELSE
            LET k == CHOOSE h \in hits : \A g \in hits : h <= g
                a == SkipSpace(line, p + Len(Keywords[k].text))
                b == SkipWord(line, a)
            IN  [directive |-> Keywords[k].name,
                 macro     |-> SubSeq(line, a, b - 1)]

\* one match of r'\bG([0-9]{1,2})\b' at position i: the number of characters
\* matched (3: two digits, 2: one digit), or 0 when there is no match at i
GcodeAt(s, i) ==
    IF ~(WordBoundary(s, i) /\ s[i] = "G"
            /\ i + 1 <= Len(s) /\ IsDigit(s[i + 1])) THEN 0
    ELSE IF i + 2 <= Len(s) /\ IsDigit(s[i + 2]) /\ WordBoundary(s, i + 3) THEN 3
    ELSE IF WordBoundary(s, i + 2) THEN 2
    ELSE 0

\* GcodeMatches that finds nothing in a line starting with '#'
RECURSIVE GcodeMatches_NotInDirectives(_, _)
GcodeMatches_NotInDirectives(s, i) ==
    IF i > Len(s) \/ StartsWith(s, <<"#">>) THEN <<>>
    ELSE LET n == GcodeAt(s, i)
         IN  IF n > 0
             THEN <<SubSeq(s, i, i + n - 1)>>
                      \o GcodeMatches_NotInDirectives(s, i + n)
             ELSE GcodeMatches_NotInDirectives(s, i + 1)

\* re.findall(r'\bG([0-9]{1,2})\b', line) from position i, each match with
\* the G put back in front (gcode = f"G{match}"), left to right
RECURSIVE GcodeMatches(_, _)
GcodeMatches(s, i) ==
    IF i > Len(s) THEN <<>>
    ELSE LET n == GcodeAt(s, i)
         IN  IF n > 0 THEN <<SubSeq(s, i, i + n - 1)>> \o GcodeMatches(s, i + n)
             ELSE GcodeMatches(s, i + 1)

(***************************************************************************)
(* CPPVariabilityAnalyzer: classification and feature extraction.          *)
(***************************************************************************)
\* DefinedAt with the defined( ) alternative left out of the pattern
DefinedAt_Never(s, i) == [ok |-> FALSE, name |-> <<>>, next |-> i]

\* the first alternative of the feature pattern at position i,
\* \bdefined\s*\(\s*([A-Za-z_][A-Za-z0-9_]*)\s*\): whether it matches, the
\* identifier captured, and the position after the match
DefinedAt(s, i) ==
    LET a == SkipSpace(s, i + Len(kw_defined))
        b == SkipSpace(s, a + 1)
        c == SkipIdent(s, b)
        d == SkipSpace(s, c)
        ok == /\ WordBoundary(s, i)
              /\ HasPrefixAt(s, i, kw_defined)
              /\ a <= Len(s) /\ s[a] = "("
              /\ b <= Len(s) /\ IsIdentStart(s[b])
              /\ d <= Len(s) /\ s[d] = ")"
    IN  IF ok THEN [ok |-> TRUE, name |-> SubSeq(s, b, c - 1), next |-> d + 1]
        ELSE [ok |-> FALSE, name |-> <<>>, next |-> i]

\* re.findall(pattern, condition) from position i: for each match, m[0] or
\* m[1], left to right
RECURSIVE FeatureMatches(_, _)
FeatureMatches(s, i) ==
    IF i > Len(s) THEN <<>>
    ELSE LET d == DefinedAt(s, i)
         IN  IF d.ok THEN <<d.name>> \o FeatureMatches(s, d.next)
             ELSE IF IsIdentStart(s[i])
                  THEN LET j == SkipIdent(s, i)
                       IN  <<SubSeq(s, i, j - 1)>> \o FeatureMatches(s, j)
                  ELSE FeatureMatches(s, i + 1)

\* _extract_features
ExtractFeatures(condition) ==
    LET matches == FeatureMatches(condition, 1)
    IN  {matches[k] : k \in {n \in 1..Len(matches) :
                                 matches[n] # <<>> /\ ~IsDigitStr(matches[n])}}

\* condition = line.split(maxsplit=1)[1] if len(line.split()) > 1 else ""
ConditionOf(line) == IF WordCount(line) > 1 THEN SplitRest(line) ELSE <<>>

\* the if/elif chain of analyze_file over the stripped line: the kind it is
\* handled as, "skip" for a line the loop passes over
KindOf(line) ==
    IF line = <<>> \/ ~StartsWith(line, <<"#">>) THEN "skip"
    ELSE IF StartsWith(line, <<"#">> \o kw_ifdef) THEN "ifdef"
    ELSE IF StartsWith(line, <<"#">> \o kw_ifndef) THEN "ifndef"
    ELSE IF StartsWith(line, <<"#">> \o kw_if) THEN "if"
    ELSE IF StartsWith(line, <<"#">> \o kw_else) THEN "else"
    ELSE IF StartsWith(line, <<"#">> \o kw_elif) THEN "elif"
    ELSE IF StartsWith(line, <<"#">> \o kw_endif) THEN "endif"
    ELSE "skip"

(***************************************************************************)
(* The input: the lines a file may hold, as read (before strip).           *)
(***************************************************************************)
FOO == <<"F","O","O">>
BAR == <<"B","A","R">>
G1  == <<"G","1">>
G28 == <<"G","2","8">>

\* "#ifdef FOO\n"
L_ifdef ==
    <<"#","i","f","d","e","f"," ","F","O","O","\n">>
\* "  #ifndef BAR\n"
L_ifndef ==
    <<" "," ","#","i","f","n","d","e","f"," ","B","A","R","\n">>
\* "#if defined(FOO) && BAR\n"
L_if ==
    <<"#","i","f"," ","d","e","f","i","n","e","d","(","F","O","O",")",
      " ","&","&"," ","B","A","R","\n">>
\* "#else\n"
L_else ==
    <<"#","e","l","s","e","\n">>
\* "#elif FOO || FOO\n"
L_elif ==
    <<"#","e","l","i","f"," ","F","O","O"," ","|","|"," ","F","O","O","\n">>
\* "\t#endif\n"
L_endif ==
    <<"\t","#","e","n","d","i","f","\n">>
\* "#define FOO 1\n"
L_define ==
    <<"#","d","e","f","i","n","e"," ","F","O","O"," ","1","\n">>
\* "#undef FOO\n"
L_undef ==
    <<"#","u","n","d","e","f"," ","F","O","O","\n">>
\* "// G1 move to G28 home\n"
L_gcode ==
    <<"/","/"," ","G","1"," ","m","o","v","e"," ","t","o"," ",
      "G","2","8"," ","h","o","m","e","\n">>
\* "# ifdef FOO\n"
L_spaced ==
    <<"#"," ","i","f","d","e","f"," ","F","O","O","\n">>
\* "#ifdef\n"
L_bare ==
    <<"#","i","f","d","e","f","\n">>
\* "#elsewhere\n"
L_longer ==
    <<"#","e","l","s","e","w","h","e","r","e","\n">>
\* "#ifdef G28\n"
L_coded ==
    <<"#","i","f","d","e","f"," ","G","2","8","\n">>
\* "\n"
L_blank ==
    <<"\n">>

Lines ==
    {L_ifdef, L_ifndef, L_if, L_else, L_elif, L_endif, L_define, L_undef,
     L_gcode, L_spaced, L_bare, L_longer, L_coded, L_blank}

(***************************************************************************)
(* State.                                                                  *)
(***************************************************************************)
VARIABLES
    \* which script runs ("code": gcode_parser_marlin.py, "var":
    \* parser_marlin.py, "unit": _extract_features applied on its own) and
    \* where it stands
    prog, pc,
    \* the walk and the file loop: files supplied so far, the path of the
    \* file being read, enumerate's line_num and the stripped line
    file_idx, file_path, line_num, line,
    \* CodeAnalyzer's fields
    directive_counts, defined_macros, undefined_macros, condition_stack,
    files_analyzed, gcode_stats, gcode_instructions,
    \* CPPVariabilityAnalyzer's fields and analyze_file's locals
    features, variation_points, directive_stats, file_complexity,
    feature_scattering, current_nesting, nesting_stack,
    \* the keys of feature_scattering in the order the dict holds them (the
    \* order of insertion), and top_features of visualize_results
    scattering_keys, top_features,
    \* what the run has consumed and done so far: the lines read, each with
    \* what the analyzer took it for (CodeAnalyzer's match, or the kind
    \* analyze_file handled it as), the appends to condition_stack, the
    \* #endif lines met with an empty condition_stack, the "Error reading"
    \* lines printed
    scanned, pushes, empty_endifs, errors_logged,
    \* _extract_features on its own: the condition and the pieces it is made
    \* of, the position of the defined(X) replaced by X, the condition after
    \* the replacement, and the two results
    condition, npieces, occurrence, replaced, feats_condition, feats_replaced

ctlVars  == <<prog, pc, file_idx, file_path, line_num, line>>
codeVars == <<directive_counts, defined_macros, undefined_macros,
              condition_stack, files_analyzed, gcode_stats,
              gcode_instructions>>
varVars  == <<features, variation_points, directive_stats, file_complexity,
              feature_scattering, current_nesting, nesting_stack,
              scattering_keys, top_features>>
histVars == <<scanned, pushes, empty_endifs, errors_logged>>
unitVars == <<condition, npieces, occurrence, replaced, feats_condition,
              feats_replaced>>
vars == <<ctlVars, codeVars, varVars, histVars, unitVars>>

(***************************************************************************)
(* defaultdict(int): a function whose domain is the keys touched so far.   *)
(***************************************************************************)
Get(d, k) == IF k \in DOMAIN d THEN d[k] ELSE 0
Inc(d, k) == [x \in (DOMAIN d) \cup {k} |-> IF x = k THEN Get(d, k) + 1 ELSE d[x]]
EmptyDict == [x \in {} |-> 0]

\* the path of the i-th file the walk supplies (os.walk names a file once)
PathOf(i) == i

(***************************************************************************)
(* CodeAnalyzer._analyze_directive, field by field; m is the match.        *)
(***************************************************************************)
\* self.directive_counts[directive] += 1
CountDirective(counts, m) ==
    IF m.directive = "none" THEN counts ELSE Inc(counts, m.directive)

\* UpdateDefined where a tested macro is taken as defined from then on
UpdateDefined_TestDefines(defined, m) ==
    IF m.directive \in {"define", "ifdef", "ifndef"} /\ m.macro # <<>>
    THEN defined \cup {m.macro}
    ELSE IF m.directive = "undef" /\ m.macro # <<>> THEN defined \ {m.macro}
    ELSE defined

\* the define / undef branches
UpdateDefined(defined, m) ==
    IF m.directive = "define" /\ m.macro # <<>> THEN defined \cup {m.macro}
    ELSE IF m.directive = "undef" /\ m.macro # <<>> THEN defined \ {m.macro}
    ELSE defined

\* UpdateUndefined without the test against defined_macros
UpdateUndefined_Always(undefined, defined, m) ==
    IF m.directive \in {"ifdef", "ifndef"} /\ m.macro # <<>>
    THEN Inc(undefined, m.macro)
    ELSE undefined

\* UpdateUndefined without the test that a macro was captured
UpdateUndefined_NoMacroTest(undefined, defined, m) ==
    IF m.directive \in {"ifdef", "ifndef"} /\ m.macro \notin defined
    THEN Inc(undefined, m.macro)
    ELSE undefined

\* the ifdef / ifndef branch
UpdateUndefined(undefined, defined, m) ==
    IF /\ m.directive \in {"ifdef", "ifndef"}
       /\ m.macro # <<>>
       /\ m.macro \notin defined
    THEN Inc(undefined, m.macro)
    ELSE undefined

\* UpdateStack with the pop on endif left out
UpdateStack_NoPop(stack, m, path, num) ==
    IF m.directive \in {"ifdef", "ifndef", "if"}
    THEN Append(stack, <<m.directive, m.macro, path, num>>)
    ELSE stack

\* the push on ifdef / ifndef / if and the guarded pop on endif
UpdateStack(stack, m, path, num) ==
    IF m.directive \in {"ifdef", "ifndef", "if"}
    THEN Append(stack, <<m.directive, m.macro, path, num>>)
    ELSE IF m.directive = "endif" /\ stack # <<>>
    THEN SubSeq(stack, 1, Len(stack) - 1)
    ELSE stack

(***************************************************************************)
(* CodeAnalyzer._analyze_gcode_line.                                       *)
(***************************************************************************)
\* CountGcodes that counts only the first match of the line
CountGcodes_FirstOnly(stats, matches) ==
    IF matches = <<>> THEN stats ELSE Inc(stats, Head(matches))

\* self.gcode_stats[gcode] += 1 for each match
RECURSIVE CountGcodes(_, _)
CountGcodes(stats, matches) ==
    IF matches = <<>> THEN stats
    ELSE CountGcodes(Inc(stats, Head(matches)), Tail(matches))

\* the record appended to gcode_instructions for each match
GcodeRecords(matches, path, num, text) ==
    [k \in 1..Len(matches) |->
        [instruction |-> matches[k], file |-> path, line |-> num,
         full_line |-> text]]

(***************************************************************************)
(* CodeAnalyzer: analyze_codebase and analyze_file.                        *)
(***************************************************************************)
\* CodeOpenFile with the defined macros forgotten at each new file
CodeOpenFile_ResetsMacros ==
    /\ prog = "code" /\ pc = "walk" /\ file_idx < MaxFiles
    /\ file_idx' = file_idx + 1
    /\ file_path' = PathOf(file_idx + 1)
    /\ line_num' = 0
    /\ pc' = "file"
    /\ defined_macros' = {}
    /\ UNCHANGED <<prog, line, directive_counts, undefined_macros,
                   condition_stack, files_analyzed, gcode_stats,
                   gcode_instructions, varVars, histVars, unitVars>>

\* analyze_codebase reaches a .c/.h file and analyze_file opens it
CodeOpenFile ==
    /\ prog = "code" /\ pc = "walk" /\ file_idx < MaxFiles
    /\ file_idx' = file_idx + 1
    /\ file_path' = PathOf(file_idx + 1)
    /\ line_num' = 0
    /\ pc' = "file"
    /\ UNCHANGED <<prog, line, codeVars, varVars, histVars, unitVars>>

\* open() raises: analyze_file prints the error and returns, and
\* analyze_codebase counts the file
CodeOpenFails ==
    /\ prog = "code" /\ pc = "walk" /\ file_idx < MaxFiles
    /\ file_idx' = file_idx + 1
    /\ file_path' = PathOf(file_idx + 1)
    /\ errors_logged' = errors_logged + 1
    /\ files_analyzed' = files_analyzed + 1
    /\ UNCHANGED <<prog, pc, line_num, line, directive_counts, defined_macros,
                   undefined_macros, condition_stack, gcode_stats,
                   gcode_instructions, varVars, scanned, pushes, empty_endifs,
                   unitVars>>

\* one turn of the loop of analyze_file over the line read
CodeLine(raw) ==
    /\ prog = "code" /\ pc = "file" /\ Len(scanned) < MaxLines
    /\ LET text == Strip(raw)
           num  == line_num + 1
           m    == DirectiveMatch(text)
           found == GcodeMatches(text, 1)
       IN  /\ line' = text
           /\ line_num' = num
           /\ scanned' = Append(scanned,
                            [file |-> file_path, line |-> num, text |-> text,
                             match |-> m])
           /\ directive_counts' = CountDirective(directive_counts, m)
           /\ defined_macros' = UpdateDefined(defined_macros, m)
           /\ undefined_macros' =
                  UpdateUndefined(undefined_macros, defined_macros, m)
           /\ condition_stack' = UpdateStack(condition_stack, m, file_path, num)
           /\ pushes' = IF Len(condition_stack') > Len(condition_stack)
                        THEN pushes + 1 ELSE pushes
           /\ empty_endifs' = IF m.directive = "endif" /\ condition_stack = <<>>
                              THEN empty_endifs + 1 ELSE empty_endifs
           /\ gcode_stats' = CountGcodes(gcode_stats, found)
           /\ gcode_instructions' =
                  gcode_instructions \o GcodeRecords(found, file_path, num, text)
    /\ UNCHANGED <<prog, pc, file_idx, file_path, files_analyzed, varVars,
                   errors_logged, unitVars>>

\* CodeReadFails where a file whose read failed is not counted
CodeReadFails_NotCounted ==
    /\ prog = "code" /\ pc = "file"
    /\ errors_logged' = errors_logged + 1
    /\ pc' = "walk"
    /\ UNCHANGED <<prog, file_idx, file_path, line_num, line, codeVars,
                   varVars, scanned, pushes, empty_endifs, unitVars>>

\* reading fails part way through the file: the except clause of
\* analyze_file prints the error, what the earlier lines did stays, and
\* analyze_codebase counts the file
CodeReadFails ==
    /\ prog = "code" /\ pc = "file"
    /\ errors_logged' = errors_logged + 1
    /\ files_analyzed' = files_analyzed + 1
    /\ pc' = "walk"
    /\ UNCHANGED <<prog, file_idx, file_path, line_num, line, directive_counts,
                   defined_macros, undefined_macros, condition_stack,
                   gcode_stats, gcode_instructions, varVars, scanned, pushes,
                   empty_endifs, unitVars>>

\* the file ends: analyze_file returns and analyze_codebase counts the file
CodeEndFile ==
    /\ prog = "code" /\ pc = "file"
    /\ files_analyzed' = files_analyzed + 1
    /\ pc' = "walk"
    /\ UNCHANGED <<prog, file_idx, file_path, line_num, line, directive_counts,
                   defined_macros, undefined_macros, condition_stack,
                   gcode_stats, gcode_instructions, varVars, histVars,
                   unitVars>>

(***************************************************************************)
(* CPPVariabilityAnalyzer._process_directive, field by field.              *)
(***************************************************************************)
\* self.directive_stats[directive_type] += 1
ProcessStats(stats, kind) == [stats EXCEPT ![kind] = @ + 1]

\* the variation point appended
VariationPoint(text, num, path, kind, depth) ==
    [type      |-> kind,
     line      |-> num,
     file      |-> path,
     condition |-> ConditionOf(text),
     features  |-> ExtractFeatures(ConditionOf(text)),
     nesting   |-> depth]

\* ScatterAll that counts a feature only the first time it is met
RECURSIVE ScatterAll_OnlyNew(_, _)
ScatterAll_OnlyNew(scattering, found) ==
    IF found = {} THEN scattering
    ELSE LET f == CHOOSE x \in found : TRUE
             next == IF f \in DOMAIN scattering THEN scattering
                     ELSE Inc(scattering, f)
         IN  ScatterAll_OnlyNew(next, found \ {f})

\* for feature in features: self.feature_scattering[feature] += 1
RECURSIVE ScatterAll(_, _)
ScatterAll(scattering, found) ==
    IF found = {} THEN scattering
    ELSE LET f == CHOOSE x \in found : TRUE
         IN  ScatterAll(Inc(scattering, f), found \ {f})

(***************************************************************************)
(* CPPVariabilityAnalyzer.analyze_file, branch by branch.                  *)
(***************************************************************************)
Opening == {"ifdef", "ifndef", "if"}
Recorded == {"ifdef", "ifndef", "if", "else", "elif"}

\* directive_stats after the line: _process_directive's increment, and the
\* increment of the else / elif branches of analyze_file
StatsAfter(stats, kind) ==
    IF kind \in Opening THEN ProcessStats(stats, kind)
    ELSE IF kind \in {"else", "elif"}
    THEN [ProcessStats(stats, kind) EXCEPT ![kind] = @ + 1]
    ELSE stats

\* NestingAfter where #else and #elif open a block too
NestingAfter_ElseOpens(depth, stack, kind) ==
    IF kind \in {"ifdef", "ifndef", "if", "else", "elif"} THEN depth + 1
    ELSE IF kind = "endif" /\ stack # <<>>
    THEN IF Len(stack) > 1 THEN stack[Len(stack) - 1] ELSE 0
    ELSE depth

\* NestingAfter with the endif branch not guarded by the stack
NestingAfter_Unguarded(depth, stack, kind) ==
    IF kind \in {"ifdef", "ifndef", "if"} THEN depth + 1
    ELSE IF kind = "endif" THEN depth - 1
    ELSE depth

\* current_nesting after the line
NestingAfter(depth, stack, kind) ==
    IF kind \in Opening THEN depth + 1
    ELSE IF kind = "endif" /\ stack # <<>>
    THEN IF Len(stack) > 1 THEN stack[Len(stack) - 1] ELSE 0
    ELSE depth

\* nesting_stack after the line
StackAfter(depth, stack, kind) ==
    IF kind \in Opening THEN Append(stack, depth + 1)
    ELSE IF kind = "endif" /\ stack # <<>>
    THEN SubSeq(stack, 1, Len(stack) - 1)
    ELSE stack

\* ComplexityAfter that counts only the directives opening a block
ComplexityAfter_OnlyOpening(complexity, kind, path) ==
    IF kind \in {"ifdef", "ifndef", "if"} THEN Inc(complexity, path)
    ELSE complexity

\* self.file_complexity[file_path] += 1, for a line _process_directive gets
ComplexityAfter(complexity, kind, path) ==
    IF kind \in Recorded THEN Inc(complexity, path) ELSE complexity

\* PointsAfter that puts the new point in front of the list
PointsAfter_Prepends(points, kind, vp) ==
    IF kind \in Recorded THEN <<vp>> \o points ELSE points

\* self.variation_points.append(vp), for a line _process_directive gets
PointsAfter(points, kind, vp) ==
    IF kind \in Recorded THEN Append(points, vp) ELSE points

\* self.features.add(feature) for each feature of the point
FeaturesAfter(known, kind, vp) ==
    IF kind \in Recorded THEN known \cup vp.features ELSE known

\* self.feature_scattering[feature] += 1 for each feature of the point
ScatteringAfter(scattering, kind, vp) ==
    IF kind \in Recorded THEN ScatterAll(scattering, vp.features)
    ELSE scattering

\* the features of the point that are not yet keys of feature_scattering:
\* feature_scattering[feature] += 1 inserts each of them
NewKeys(scattering, kind, vp) ==
    IF kind \in Recorded THEN vp.features \ (DOMAIN scattering) ELSE {}

\* the orders in which "for feature in features" may go through a set: the
\* iteration order of a set of strings depends on the hashes of the run
Orders(found) ==
    {o \in [1..Cardinality(found) -> found] :
        \A i, j \in 1..Cardinality(found) : o[i] = o[j] => i = j}

\* sorted(self.feature_scattering.items(), key=lambda x: x[1], reverse=True):
\* the place of the i-th key, counts descending, items of equal count in
\* the order of the dict (the sort is stable, reverse=True too)
PlaceOf(keys, scattering, i) ==
    1 + Cardinality({j \in 1..Len(keys) :
            \/ scattering[keys[j]] > scattering[keys[i]]
            \/ scattering[keys[j]] = scattering[keys[i]] /\ j < i})

\* the 15 of [:15]
TopN == 15

\* top_features = sorted(...)[:15]
TopFeatures(keys, scattering) ==
    [r \in 1..(IF Len(keys) < TopN THEN Len(keys) ELSE TopN) |->
        LET i == CHOOSE j \in 1..Len(keys) : PlaceOf(keys, scattering, j) = r
        IN  <<keys[i], scattering[keys[i]]>>]

\* VarOpenFile where the depth and the stack live on from file to file
VarOpenFile_KeepsNesting ==
    /\ prog = "var" /\ pc = "walk" /\ file_idx < MaxFiles
    /\ file_idx' = file_idx + 1
    /\ file_path' = PathOf(file_idx + 1)
    /\ line_num' = 0
    /\ pc' = "file"
    /\ UNCHANGED <<prog, line, codeVars, varVars, histVars, unitVars>>

\* analyze_codebase reaches a file of the extensions it reads and
\* analyze_file opens it
VarOpenFile ==
    /\ prog = "var" /\ pc = "walk" /\ file_idx < MaxFiles
    /\ file_idx' = file_idx + 1
    /\ file_path' = PathOf(file_idx + 1)
    /\ current_nesting' = 0
    /\ nesting_stack' = <<>>
    /\ line_num' = 0
    /\ pc' = "file"
    /\ UNCHANGED <<prog, line, codeVars, features, variation_points,
                   directive_stats, file_complexity, feature_scattering,
                   scattering_keys, top_features, histVars, unitVars>>

\* open() raises: nothing catches it, in analyze_file or in
\* analyze_codebase, and the script ends with the exception
VarOpenFails ==
    /\ prog = "var" /\ pc = "walk" /\ file_idx < MaxFiles
    /\ file_idx' = file_idx + 1
    /\ file_path' = PathOf(file_idx + 1)
    /\ current_nesting' = 0
    /\ nesting_stack' = <<>>
    /\ pc' = "raised"
    /\ UNCHANGED <<prog, line_num, line, codeVars, features, variation_points,
                   directive_stats, file_complexity, feature_scattering,
                   scattering_keys, top_features, histVars, unitVars>>

\* one turn of the loop of analyze_file over the line read
VarLine(raw) ==
    /\ prog = "var" /\ pc = "file" /\ Len(scanned) < MaxLines
    /\ LET text == Strip(raw)
           num  == line_num + 1
           kind == KindOf(text)
           vp   == VariationPoint(text, num, file_path, kind, current_nesting)
       IN  /\ line' = text
           /\ line_num' = num
           /\ scanned' = Append(scanned,
                            [file |-> file_path, line |-> num, text |-> text,
                             kind |-> kind])
           /\ directive_stats' = StatsAfter(directive_stats, kind)
           /\ current_nesting' = NestingAfter(current_nesting, nesting_stack, kind)
           /\ nesting_stack' = StackAfter(current_nesting, nesting_stack, kind)
           /\ file_complexity' = ComplexityAfter(file_complexity, kind, file_path)
           /\ variation_points' = PointsAfter(variation_points, kind, vp)
           /\ features' = FeaturesAfter(features, kind, vp)
           /\ feature_scattering' = ScatteringAfter(feature_scattering, kind, vp)
           /\ \E order \in Orders(NewKeys(feature_scattering, kind, vp)) :
                  scattering_keys' = scattering_keys \o order
    /\ UNCHANGED <<prog, pc, file_idx, file_path, codeVars, top_features,
                   pushes, empty_endifs, errors_logged, unitVars>>

\* reading fails part way through the file: the exception leaves
\* analyze_file and analyze_codebase, and the script ends with it
VarReadFails ==
    /\ prog = "var" /\ pc = "file"
    /\ pc' = "raised"
    /\ UNCHANGED <<prog, file_idx, file_path, line_num, line, codeVars,
                   varVars, histVars, unitVars>>

\* the file ends and analyze_file returns
VarEndFile ==
    /\ prog = "var" /\ pc = "file"
    /\ pc' = "walk"
    /\ UNCHANGED <<prog, file_idx, file_path, line_num, line, codeVars,
                   varVars, histVars, unitVars>>

\* the walk is over: analyze_codebase prints the summary and
\* visualize_results ranks the features
VarVisualize ==
    /\ prog = "var" /\ pc = "walk"
    /\ top_features' = TopFeatures(scattering_keys, feature_scattering)
    /\ pc' = "done"
    /\ UNCHANGED <<prog, file_idx, file_path, line_num, line, codeVars,
                   features, variation_points, directive_stats,
                   file_complexity, feature_scattering, current_nesting,
                   nesting_stack, scattering_keys, histVars, unitVars>>

(***************************************************************************)
(* The runs.                                                               *)
(***************************************************************************)
\* InitFields where defined_macros is one set shared by all the instances,
\* and may hold what an earlier instance has put in it
InitFields_Shared ==
    /\ file_idx = 0 /\ file_path = 0 /\ line_num = 0 /\ line = <<>>
    /\ directive_counts = EmptyDict
    /\ defined_macros \in {{}, {FOO}}
    /\ undefined_macros = EmptyDict
    /\ condition_stack = <<>>
    /\ files_analyzed = 0
    /\ gcode_stats = EmptyDict
    /\ gcode_instructions = <<>>
    /\ features = {}
    /\ variation_points = <<>>
    /\ directive_stats = [k \in Recorded |-> 0]
    /\ file_complexity = EmptyDict
    /\ feature_scattering = EmptyDict
    /\ current_nesting = 0
    /\ nesting_stack = <<>>
    /\ scattering_keys = <<>>
    /\ top_features = <<>>
    /\ scanned = <<>> /\ pushes = 0 /\ empty_endifs = 0 /\ errors_logged = 0
    /\ condition = <<>> /\ npieces = 0 /\ occurrence = 0 /\ replaced = <<>>
    /\ feats_condition = {} /\ feats_replaced = {}

\* the fields as __init__ sets them (both classes), the loop variables
\* before the first file, and nothing consumed yet
InitFields ==
    /\ file_idx = 0 /\ file_path = 0 /\ line_num = 0 /\ line = <<>>
    /\ directive_counts = EmptyDict
    /\ defined_macros = {}
    /\ undefined_macros = EmptyDict
    /\ condition_stack = <<>>
    /\ files_analyzed = 0
    /\ gcode_stats = EmptyDict
    /\ gcode_instructions = <<>>
    /\ features = {}
    /\ variation_points = <<>>
    /\ directive_stats = [k \in Recorded |-> 0]
    /\ file_complexity = EmptyDict
    /\ feature_scattering = EmptyDict
    /\ current_nesting = 0
    /\ nesting_stack = <<>>
    /\ scattering_keys = <<>>
    /\ top_features = <<>>
    /\ scanned = <<>> /\ pushes = 0 /\ empty_endifs = 0 /\ errors_logged = 0
    /\ condition = <<>> /\ npieces = 0 /\ occurrence = 0 /\ replaced = <<>>
    /\ feats_condition = {} /\ feats_replaced = {}

Init ==
    /\ prog \in {"code", "var"}
    /\ pc = "walk"
    /\ InitFields

Next ==
    \/ CodeOpenFile
    \/ CodeOpenFails
    \/ \E raw \in Lines : CodeLine(raw)
    \/ CodeReadFails
    \/ CodeEndFile
    \/ VarOpenFile
    \/ VarOpenFails
    \/ \E raw \in Lines : VarLine(raw)
    \/ VarReadFails
    \/ VarEndFile
    \/ VarVisualize

Spec == Init /\ [][Next]_vars

(***************************************************************************)
(* _extract_features on its own: a condition is put together from pieces,  *)
(* one defined(X) in it is replaced by X, and both texts are extracted.    *)
(***************************************************************************)
Pieces ==
    { kw_defined, kw_defined \o <<"(">>, <<"(">>, <<")">>, FOO, BAR,
      <<"1">>, <<" ">>, <<" ","&","&"," ">> }

\* a defined(X) stands at position i of s: "defined", "(", an identifier
\* and ")", with optional whitespace between them, and no word character
\* directly before "defined"
IsWrapperAt(s, i) ==
    /\ HasPrefixAt(s, i, kw_defined)
    /\ ~(i > 1 /\ IsWord(s[i - 1]))
    /\ LET a == SkipSpace(s, i + Len(kw_defined))
       IN  /\ a <= Len(s) /\ s[a] = "("
           /\ LET b == SkipSpace(s, a + 1)
              IN  /\ b <= Len(s) /\ IsIdentStart(s[b])
                  /\ LET d == SkipSpace(s, SkipIdent(s, b))
                     IN  d <= Len(s) /\ s[d] = ")"

\* for a defined(X) at position i: where X starts and ends, and where the
\* closing parenthesis is
WrapperParts(s, i) ==
    LET b == SkipSpace(s, SkipSpace(s, i + Len(kw_defined)) + 1)
        c == SkipIdent(s, b)
    IN  [first |-> b, last |-> c - 1, close |-> SkipSpace(s, c)]

\* s with the defined(X) at position i replaced by X
ReplaceWrapper(s, i) ==
    LET w == WrapperParts(s, i)
    IN  SubSeq(s, 1, i - 1) \o SubSeq(s, w.first, w.last)
            \o SubSeq(s, w.close + 1, Len(s))

UnitAppend(piece) ==
    /\ prog = "unit" /\ pc = "build" /\ npieces < MaxCondLen
    /\ condition' = condition \o piece
    /\ npieces' = npieces + 1
    /\ UNCHANGED <<ctlVars, codeVars, varVars, histVars, occurrence, replaced,
                   feats_condition, feats_replaced>>

UnitReplace(i) ==
    /\ prog = "unit" /\ pc = "build"
    /\ IsWrapperAt(condition, i)
    /\ occurrence' = i
    /\ replaced' = ReplaceWrapper(condition, i)
    /\ pc' = "replaced"
    /\ UNCHANGED <<prog, file_idx, file_path, line_num, line, codeVars, varVars,
                   histVars, condition, npieces, feats_condition,
                   feats_replaced>>

UnitExtract ==
    /\ prog = "unit" /\ pc = "replaced"
    /\ feats_condition' = ExtractFeatures(condition)
    /\ feats_replaced' = ExtractFeatures(replaced)
    /\ pc' = "extracted"
    /\ UNCHANGED <<prog, file_idx, file_path, line_num, line, codeVars, varVars,
                   histVars, condition, npieces, occurrence, replaced>>

UnitInit ==
    /\ prog = "unit"
    /\ pc = "build"
    /\ InitFields

UnitNext ==
    \/ \E piece \in Pieces : UnitAppend(piece)
    \/ \E i \in 1..Len(condition) : UnitReplace(i)
    \/ UnitExtract

SpecExtract == UnitInit /\ [][UnitNext]_vars

(***************************************************************************)
(* Claims.                                                                 *)
(***************************************************************************)
\* a step that reads one more line
ReadsLine == Len(scanned') = Len(scanned) + 1

\* the ifdef, ifndef and if lines CodeAnalyzer has counted
Openers ==
    Get(directive_counts, "ifdef") + Get(directive_counts, "ifndef")
        + Get(directive_counts, "if")

\* C1 as stated: in CodeAnalyzer the ifdef + ifndef + if counts equal the
\* number of pushes onto condition_stack and equal the endif count plus the
\* frames left on condition_stack, also when #endif lines arrive while the
\* stack is empty.
C1_Original ==
    prog = "code" =>
        /\ Openers = pushes
        /\ Openers = Get(directive_counts, "endif") + Len(condition_stack)

\* C1 amended: the ifdef + ifndef + if counts equal the number of pushes,
\* and the endif count plus the frames left equals them plus the number
\* of #endif lines that arrived while the stack was empty (each of these is
\* counted and pops nothing).
C1_Amended ==
    prog = "code" =>
        /\ Openers = pushes
        /\ Openers + empty_endifs
               = Get(directive_counts, "endif") + Len(condition_stack)

\* C1 witness: an #endif met with an empty stack and counted, and a push.
C1_Witness ==
    /\ prog = "code"
    /\ empty_endifs >= 1
    /\ Get(directive_counts, "endif") >= 1
    /\ pushes >= 1

\* C2 as stated: in CPPVariabilityAnalyzer, for each kind among ifdef,
\* ifndef, if, else and elif, directive_stats[kind] is the number of
\* recorded variation points of that type.
C2_Claim ==
    prog = "var" =>
        \A k \in Recorded :
            directive_stats[k]
                = Cardinality({i \in 1..Len(variation_points) :
                                   variation_points[i].type = k})

\* C3, the depths: the nesting depth is never negative and every recorded
\* variation point has nesting >= 0.
C3_Depths ==
    /\ current_nesting >= 0
    /\ \A i \in 1..Len(variation_points) : variation_points[i].nesting >= 0

\* C3, the step: an #endif read while no block is open leaves the depth at
\* 0, changes no stack and raises no error, in either analyzer.
C3_EmptyEndif ==
    /\ ( /\ prog = "var" /\ ReadsLine
         /\ KindOf(line') = "endif" /\ nesting_stack = <<>> )
         => ( /\ current_nesting' = 0
              /\ nesting_stack' = <<>>
              /\ pc' = "file" )
    /\ ( /\ prog = "code" /\ ReadsLine
         /\ DirectiveMatch(line').directive = "endif" /\ condition_stack = <<>> )
         => ( /\ condition_stack' = <<>>
              /\ pc' = "file"
              /\ errors_logged' = errors_logged )

\* C3: for any sequence of directive lines the depth never becomes negative,
\* every recorded nesting is >= 0, and an #endif with no open block leaves
\* the depth at 0, changes no stack and raises no error.
C3_Safety == []C3_Depths /\ [][C3_EmptyEndif]_vars

\* C3 witness: the first line of the file was an #endif, the scan went on,
\* and a later directive was recorded at nesting 0.
C3_Witness ==
    /\ prog = "var" /\ pc = "file"
    /\ Len(scanned) >= 2
    /\ scanned[1].kind = "endif"
    /\ Len(variation_points) >= 1
    /\ variation_points[1].nesting = 0
    /\ variation_points[1].line = 2

\* the lines read so far from the file path, before its line num
LinesBefore(path, num) ==
    SelectSeq(scanned, LAMBDA r : r.file = path /\ r.line < num)

\* the conditional blocks open after the lines rs of one file: an ifdef,
\* ifndef or if opens one, an endif closes one when one is open
RECURSIVE OpenBlocks(_)
OpenBlocks(rs) ==
    IF rs = <<>> THEN 0
    ELSE LET d == OpenBlocks(SubSeq(rs, 1, Len(rs) - 1))
             k == rs[Len(rs)].kind
         IN  IF k \in {"ifdef", "ifndef", "if"} THEN d + 1
             ELSE IF k = "endif" /\ d > 0 THEN d - 1
             ELSE d

\* C4: in CPPVariabilityAnalyzer.analyze_file the nesting recorded for a
\* directive is the number of conditional blocks open just before its line
\* in its file, and the current depth is the number open after the lines
\* read: an ifdef/ifndef/if raises it by 1, an else/elif leaves depth and
\* stack alone, an endif with an open block lowers it by 1.
C4_Nesting ==
    prog = "var" =>
        /\ \A i \in 1..Len(variation_points) :
               variation_points[i].nesting
                   = OpenBlocks(LinesBefore(variation_points[i].file,
                                            variation_points[i].line))
        /\ pc = "file" =>
               /\ current_nesting
                      = OpenBlocks(LinesBefore(file_path, line_num + 1))
               /\ Len(nesting_stack) = current_nesting

\* C4 witness: "#ifdef FOO" recorded at depth 0 with the feature FOO, and
\* the #endif after it back at depth 0.
C4_Witness ==
    /\ prog = "var" /\ pc = "file"
    /\ Len(scanned) = 2
    /\ scanned[2].kind = "endif"
    /\ Len(variation_points) = 1
    /\ variation_points[1].type = "ifdef"
    /\ variation_points[1].features = {FOO}
    /\ variation_points[1].nesting = 0
    /\ current_nesting = 0 /\ nesting_stack = <<>>

\* what the directive pattern made of each line read so far
Matches == [i \in 1..Len(scanned) |-> scanned[i].match]

\* in the matches ms, the i-th line read is an #ifdef or #ifndef of the macro
IsUse(ms, i, macro) ==
    ms[i].directive \in {"ifdef", "ifndef"} /\ ms[i].macro = macro

\* among the lines read before the i-th, the most recent #define or #undef
\* of the macro is a #define
SeenDefined(ms, i, macro) ==
    \E j \in 1..(i - 1) :
        /\ ms[j].directive = "define" /\ ms[j].macro = macro
        /\ \A k \in (j + 1)..(i - 1) :
               ~(ms[k].directive = "undef" /\ ms[k].macro = macro)

\* as SeenDefined, with that #define in another file than the i-th line
SeenDefinedElsewhere(ms, i, macro) ==
    \E j \in 1..(i - 1) :
        /\ ms[j].directive = "define" /\ ms[j].macro = macro
        /\ scanned[j].file # scanned[i].file
        /\ \A k \in (j + 1)..(i - 1) :
               ~(ms[k].directive \in {"define", "undef"} /\ ms[k].macro = macro)

\* the macro names the matches carry
MacrosNamed(ms) == {ms[i].macro : i \in 1..Len(ms)} \ {<<>>}

C6_SharedAcrossFiles ==
    prog = "code" =>
        \A ms \in {Matches} :
            /\ \A macro \in MacrosNamed(ms) :
                   SeenDefined(ms, Len(ms) + 1, macro)
                       => macro \in defined_macros
            /\ \A macro \in MacrosNamed(ms) \cup DOMAIN undefined_macros :
                   Get(undefined_macros, macro)
                       <= Cardinality({i \in 1..Len(ms) :
                                          /\ IsUse(ms, i, macro)
                                          /\ ~SeenDefinedElsewhere(ms, i, macro)})

\* C6 witness: #define FOO in the first file, #ifdef FOO in the second, and
\* no undefined use of FOO counted.
C6_Witness ==
    /\ prog = "code"
    /\ Len(scanned) = 2
    /\ Matches[1] = [directive |-> "define", macro |-> FOO]
    /\ scanned[1].file = PathOf(1)
    /\ IsUse(Matches, 2, FOO)
    /\ scanned[2].file = PathOf(2)
    /\ Get(undefined_macros, FOO) = 0
    /\ FOO \in defined_macros

\* C7: in CodeAnalyzer defined_macros changes only in a step that reads a
\* define or undef directive carrying a macro name; no other line, and no
\* other step, changes it.
C7_Frame ==
    [][ defined_macros' # defined_macros =>
            /\ prog = "code" /\ ReadsLine
            /\ DirectiveMatch(line').directive \in {"define", "undef"}
            /\ DirectiveMatch(line').macro # <<>> ]_vars

\* C7 witness: #define FOO, then a line with two instructions, with FOO
\* still the only defined macro.
C7_Witness ==
    /\ prog = "code"
    /\ Len(scanned) = 2
    /\ Matches[1].directive = "define"
    /\ Matches[2].directive = "none" /\ Len(gcode_instructions) = 2
    /\ defined_macros = {FOO}

\* no feature of the set is made of digits only
NoNumeric(found) ==
    \A f \in found : \E k \in 1..Len(f) : f[k] \notin Digit

\* the defined(X) at position i of s is written directly inside another
\* defined( : "defined", "(" and optional whitespace end right before it
InsideDefined(s, i) ==
    \E j \in 1..(i - 1) :
        /\ HasPrefixAt(s, j, kw_defined)
        /\ LET a == SkipSpace(s, j + Len(kw_defined))
           IN  a < i /\ s[a] = "(" /\ SkipSpace(s, a + 1) = i

\* the defined(X) at position i of s stands as a token of its own: no
\* identifier character directly after its closing parenthesis (none
\* directly before it either, by IsWrapperAt), X is not the word "defined",
\* and it is not written directly inside another defined(
StandsAlone(s, i) ==
    LET w == WrapperParts(s, i)
    IN  /\ ~(w.close < Len(s) /\ IsWord(s[w.close + 1]))
        /\ SubSeq(s, w.first, w.last) # kw_defined
        /\ ~InsideDefined(s, i)

\* C8 as stated: for any condition, replacing an occurrence of defined(X)
\* by the bare identifier X yields the same feature set, and no returned
\* feature is a purely numeric token.
C8_Original ==
    pc = "extracted" =>
        /\ feats_condition = feats_replaced
        /\ NoNumeric(feats_condition) /\ NoNumeric(feats_replaced)

\* C8 amended: replacing an occurrence of defined(X) that stands as a token
\* of its own (no identifier character directly before "defined" or directly
\* after the closing parenthesis), with X not the word "defined" and the
\* occurrence not written directly inside another defined( , by the bare
\* identifier X yields the same feature set; and no returned feature is a
\* purely numeric token.
C8_Amended ==
    pc = "extracted" =>
        /\ StandsAlone(condition, occurrence)
               => feats_condition = feats_replaced
        /\ NoNumeric(feats_condition) /\ NoNumeric(feats_replaced)

\* C8 witness: "defined(FOO) && BAR" and "FOO && BAR" both extracted, each
\* to {FOO, BAR}.
C8_Witness ==
    /\ pc = "extracted"
    /\ condition = kw_defined \o <<"(">> \o FOO \o <<")">>
                       \o <<" ","&","&"," ">> \o BAR
    /\ replaced = FOO \o <<" ","&","&"," ">> \o BAR
    /\ feats_condition = {FOO, BAR}
    /\ feats_replaced = {FOO, BAR}

\* the features of all recorded variation points
PointFeatures ==
    UNION {variation_points[i].features : i \in 1..Len(variation_points)}

\* C9: in CPPVariabilityAnalyzer feature_scattering[f] is the number of
\* recorded variation points whose feature set contains f (a feature met
\* several times in one condition counts once for that point), and features
\* is the union of the feature sets of all variation points.
C9_Scattering ==
    prog = "var" =>
        /\ \A f \in PointFeatures \cup features \cup DOMAIN feature_scattering :
               Get(feature_scattering, f)
                   = Cardinality({i \in 1..Len(variation_points) :
                                      f \in variation_points[i].features})
        /\ features = PointFeatures

\* C9 witness: "#ifdef FOO" and "#elif FOO || FOO" recorded, FOO counted
\* once for each.
C9_Witness ==
    /\ prog = "var"
    /\ Len(variation_points) = 2
    /\ variation_points[1].condition = FOO
    /\ variation_points[2].condition
           = FOO \o <<" ","|","|"," ">> \o FOO
    /\ Get(feature_scattering, FOO) = 2
    /\ features = {FOO}

\* the sum of the values of a defaultdict
RECURSIVE SumValues(_)
SumValues(d) ==
    IF DOMAIN d = {} THEN 0
    ELSE LET k == CHOOSE x \in DOMAIN d : TRUE
         IN  d[k] + SumValues([x \in (DOMAIN d) \ {k} |-> d[x]])

\* C10: in CPPVariabilityAnalyzer file_complexity[p] is the number of
\* recorded variation points whose file is p, for every path p, and the sum
\* of file_complexity over all paths is the length of variation_points.
C10_Complexity ==
    prog = "var" =>
        /\ \A path \in (DOMAIN file_complexity) \cup
                       {variation_points[i].file :
                            i \in 1..Len(variation_points)} \cup
                       {PathOf(n) : n \in 1..file_idx} :
               Get(file_complexity, path)
                   = Cardinality({i \in 1..Len(variation_points) :
                                      variation_points[i].file = path})
        /\ SumValues(file_complexity) = Len(variation_points)

\* C10 witness: two files read, one variation point recorded in each.
C10_Witness ==
    /\ prog = "var"
    /\ Len(variation_points) = 2
    /\ Get(file_complexity, PathOf(1)) = 1
    /\ Get(file_complexity, PathOf(2)) = 1
    /\ variation_points[1].file = PathOf(1)
    /\ variation_points[2].file = PathOf(2)

\* the positions of a text where an instruction token starts
MentionStarts(s) == {i \in 1..Len(s) : GcodeAt(s, i) > 0}

\* the instruction tokens of a text, from left to right
Mentions(s) ==
    [k \in 1..Cardinality(MentionStarts(s)) |->
        LET i == CHOOSE j \in MentionStarts(s) :
                     Cardinality({h \in MentionStarts(s) : h <= j}) = k
        IN  SubSeq(s, i, i + GcodeAt(s, i) - 1)]

\* the texts a line read can be, once stripped
Texts == {Strip(raw) : raw \in Lines}

\* the instruction tokens of each text
MentionsIn == [t \in Texts |-> Mentions(t)]

\* the records of gcode_instructions that hold the instruction t
RecordsOf(records, t) ==
    {i \in 1..Len(records) : records[i].instruction = t}

\* C11, the counts: gcode_stats[t] is the number of records of
\* gcode_instructions whose instruction is t, for every token t.
C11_Counts ==
    prog = "code" =>
        \A t \in (DOMAIN gcode_stats) \cup
                 {gcode_instructions[i].instruction :
                      i \in 1..Len(gcode_instructions)} :
            Get(gcode_stats, t) = Cardinality(RecordsOf(gcode_instructions, t))

\* C11, the step: reading a line appends one record per instruction token of
\* the line, in the left-to-right order of the tokens, after the records
\* already there, and adds one to the count of the token for each; a step
\* that reads no line changes neither.
C11_Appends ==
    prog = "code" =>
        IF ReadsLine
        THEN LET new == MentionsIn[line']
                 old == Len(gcode_instructions)
             IN  /\ Len(gcode_instructions') = old + Len(new)
                 /\ SubSeq(gcode_instructions', 1, old) = gcode_instructions
                 /\ \A k \in 1..Len(new) :
                        gcode_instructions'[old + k].instruction = new[k]
                 /\ \A t \in (DOMAIN gcode_stats') \cup {new[k] : k \in 1..Len(new)} :
                        Get(gcode_stats', t)
                            = Get(gcode_stats, t)
                                  + Cardinality({k \in 1..Len(new) : new[k] = t})
        ELSE UNCHANGED <<gcode_stats, gcode_instructions>>

\* C11: in CodeAnalyzer, after any sequence of scanned lines, gcode_stats[t]
\* equals the number of records in gcode_instructions whose instruction is
\* t, and each match in a line adds exactly one to the count and appends
\* exactly one record, in left-to-right order of the matches.
C11_Mentions == []C11_Counts /\ [][C11_Appends]_vars

\* C11 witness: "// G1 move to G28 home" read twice: four records, G1 before
\* G28 each time, and each token counted twice.
C11_Witness ==
    /\ prog = "code"
    /\ Len(gcode_instructions) = 4
    /\ gcode_instructions[1].instruction = G1
    /\ gcode_instructions[2].instruction = G28
    /\ gcode_instructions[3].instruction = G1
    /\ gcode_instructions[4].instruction = G28
    /\ Get(gcode_stats, G1) = 2
    /\ Get(gcode_stats, G28) = 2

\* the records the instruction tokens of the lines rs give, line after line,
\* whatever else the lines are
RECURSIVE MentionsOfAll(_)
MentionsOfAll(rs) ==
    IF rs = <<>> THEN <<>>
    ELSE LET r == rs[Len(rs)]
             found == MentionsIn[r.text]
         IN  MentionsOfAll(SubSeq(rs, 1, Len(rs) - 1))
                 \o [k \in 1..Len(found) |->
                        [instruction |-> found[k], file |-> r.file,
                         line |-> r.line, full_line |-> r.text]]

\* C12: in CodeAnalyzer every line read is scanned for instructions, whether
\* the directive pattern took it for a directive or not, and the mentions of
\* a line depend on its text only, not on the directive state:
\* gcode_instructions is the mentions of all the lines read, in order.
C12_EveryLine ==
    prog = "code" => gcode_instructions = MentionsOfAll(scanned)

\* C12 witness: "#ifdef G28", a directive that opens a block, gives the
\* mention G28, and the comment "// G1 move to G28 home" read inside the
\* block gives exactly G1 and G28, each count raised by one.
C12_Witness ==
    /\ prog = "code"
    /\ Len(scanned) = 2
    /\ scanned[1].match.directive = "ifdef"
    /\ scanned[2].match.directive = "none"
    /\ scanned[2].text = Strip(L_gcode)
    /\ Len(condition_stack) = 1
    /\ Len(gcode_instructions) = 3
    /\ gcode_instructions[1].instruction = G28
    /\ gcode_instructions[2].instruction = G1
    /\ gcode_instructions[3].instruction = G28
    /\ gcode_instructions[2].line = 2 /\ gcode_instructions[3].line = 2
    /\ Get(gcode_stats, G1) = 1
    /\ Get(gcode_stats, G28) = 2

\* C13 as stated: a read failure on one file is caught and the file is
\* skipped, in CPPVariabilityAnalyzer run by analyze_codebase as in
\* CodeAnalyzer: no run ends with the exception of a failed read.
C13_Claim ==
    prog \in {"code", "var"} => pc # "raised"

\* the keywords a stripped line is a directive of: the line begins with '#',
\* optional whitespace, and the keyword as a whole word
DirectiveKinds(text) ==
    {Keywords[k].name : k \in
        {h \in 1..Len(Keywords) :
            /\ text # <<>> /\ text[1] = "#"
            /\ \E p \in 2..Len(text) :
                   /\ \A q \in 2..(p - 1) : IsSpace(text[q])
                   /\ HasPrefixAt(text, p, Keywords[h].text)
                   /\ LET after == p + Len(Keywords[h].text)
                      IN  ~(after <= Len(text) /\ IsWord(text[after]))}}

\* C14 as stated: a line is treated as a directive of kind k exactly when,
\* stripped, it begins with '#', optional whitespace, and the keyword k as a
\* whole word, by CodeAnalyzer._analyze_directive (the eight keywords) and by
\* CPPVariabilityAnalyzer.analyze_file (the six it handles) alike.
C14_Claim ==
    \A i \in 1..Len(scanned) :
        /\ prog = "code" =>
               \A k \in {Keywords[h].name : h \in 1..Len(Keywords)} :
                   scanned[i].match.directive = k
                       <=> k \in DirectiveKinds(scanned[i].text)
        /\ prog = "var" =>
               \A k \in Recorded \cup {"endif"} :
                   scanned[i].kind = k <=> k \in DirectiveKinds(scanned[i].text)

\* the opening directives written with nothing after the keyword, and the
\* kind of each
BareOpenings ==
    [ifdef  |-> <<"#">> \o kw_ifdef,
     ifndef |-> <<"#">> \o kw_ifndef,
     if     |-> <<"#">> \o kw_if]

\* what reading the bare opening directive of kind k does in CodeAnalyzer
C15_Code(k) ==
    /\ Get(directive_counts', k) = Get(directive_counts, k) + 1
    /\ Len(condition_stack') = Len(condition_stack) + 1
    /\ condition_stack'[Len(condition_stack')][1] = k
    /\ condition_stack'[Len(condition_stack')][2] = <<>>
    /\ UNCHANGED <<defined_macros, undefined_macros, errors_logged, pc>>

\* what reading the bare opening directive of kind k does in
\* CPPVariabilityAnalyzer
C15_Var(k) ==
    /\ directive_stats'[k] = directive_stats[k] + 1
    /\ Len(variation_points') = Len(variation_points) + 1
    /\ LET vp == variation_points'[Len(variation_points')]
       IN  /\ vp.type = k
           /\ vp.condition = <<>>
           /\ vp.features = {}
           /\ vp.nesting = current_nesting
    /\ current_nesting' = current_nesting + 1
    /\ Len(nesting_stack') = Len(nesting_stack) + 1
    /\ UNCHANGED <<feature_scattering, features, pc>>

\* C15: an opening directive with no macro name (a bare "#ifdef") is
\* tolerated: reading it raises no error, it is counted and recorded with an
\* empty macro or feature set, it opens a block, and it changes neither
\* defined_macros nor undefined_macros nor feature_scattering.
C15_Tolerated ==
    [][ \A k \in DOMAIN BareOpenings :
            (ReadsLine /\ line' = BareOpenings[k]) =>
                /\ prog = "code" => C15_Code(k)
                /\ prog = "var" => C15_Var(k) ]_vars

\* C15 witness: CodeAnalyzer has read "#define FOO 1" and then a bare
\* "#ifdef": the frame pushed has no macro, FOO stays defined and
\* undefined_macros is empty.
C15_Witness ==
    /\ prog = "code"
    /\ Len(scanned) = 2
    /\ scanned[2].text = BareOpenings["ifdef"]
    /\ Get(directive_counts, "ifdef") = 1
    /\ Len(condition_stack) = 1
    /\ condition_stack[1][2] = <<>>
    /\ defined_macros = {FOO}
    /\ undefined_macros = EmptyDict
    /\ errors_logged = 0

\* what the patterns and tests of a second instance give for each text: the
\* directive match and the instruction matches of CodeAnalyzer, and the
\* kind, the condition and the features of CPPVariabilityAnalyzer
SecondMatch == [t \in Texts |-> DirectiveMatch(t)]
SecondGcodes == [t \in Texts |-> GcodeMatches(t, 1)]
SecondKind == [t \in Texts |-> KindOf(t)]
SecondCondition == [t \in Texts |-> ConditionOf(t)]
SecondFeatures == [t \in Texts |-> ExtractFeatures(ConditionOf(t))]

\* a second CodeAnalyzer, as __init__ leaves it
SecondCode ==
    [directive_counts |-> EmptyDict, defined_macros |-> {},
     undefined_macros |-> EmptyDict, condition_stack |-> <<>>,
     gcode_stats |-> EmptyDict, gcode_instructions |-> <<>>]

\* the second CodeAnalyzer a after it has read the line r
SecondCodeLine(a, r) ==
    LET m == SecondMatch[r.text]
        found == SecondGcodes[r.text]
    IN  [directive_counts |-> CountDirective(a.directive_counts, m),
         defined_macros |-> UpdateDefined(a.defined_macros, m),
         undefined_macros |->
             UpdateUndefined(a.undefined_macros, a.defined_macros, m),
         condition_stack |-> UpdateStack(a.condition_stack, m, r.file, r.line),
         gcode_stats |-> CountGcodes(a.gcode_stats, found),
         gcode_instructions |->
             a.gcode_instructions \o GcodeRecords(found, r.file, r.line, r.text)]

\* the second CodeAnalyzer a after it has read the lines rs from the i-th on
RECURSIVE SecondCodeRun(_, _, _)
SecondCodeRun(a, rs, i) ==
    IF i > Len(rs) THEN a
    ELSE SecondCodeRun(SecondCodeLine(a, rs[i]), rs, i + 1)

\* a second CPPVariabilityAnalyzer, as __init__ leaves it, with the locals of
\* analyze_file
SecondVar ==
    [features |-> {}, variation_points |-> <<>>,
     directive_stats |-> [k \in Recorded |-> 0],
     file_complexity |-> EmptyDict, feature_scattering |-> EmptyDict,
     current_nesting |-> 0, nesting_stack |-> <<>>]

\* the second CPPVariabilityAnalyzer a after it has read the line r, the
\* first line of a file when fresh
SecondVarLine(a, r, fresh) ==
    LET depth == IF fresh THEN 0 ELSE a.current_nesting
        stack == IF fresh THEN <<>> ELSE a.nesting_stack
        kind  == SecondKind[r.text]
        vp    == [type      |-> kind,
                  line      |-> r.line,
                  file      |-> r.file,
                  condition |-> SecondCondition[r.text],
                  features  |-> SecondFeatures[r.text],
                  nesting   |-> depth]
    IN  [features |-> FeaturesAfter(a.features, kind, vp),
         variation_points |-> PointsAfter(a.variation_points, kind, vp),
         directive_stats |-> StatsAfter(a.directive_stats, kind),
         file_complexity |-> ComplexityAfter(a.file_complexity, kind, r.file),
         feature_scattering |->
             ScatteringAfter(a.feature_scattering, kind, vp),
         current_nesting |-> NestingAfter(depth, stack, kind),
         nesting_stack |-> StackAfter(depth, stack, kind)]

\* the second CPPVariabilityAnalyzer a after it has read the lines rs from
\* the i-th on
RECURSIVE SecondVarRun(_, _, _)
SecondVarRun(a, rs, i) ==
    IF i > Len(rs) THEN a
    ELSE SecondVarRun(
             SecondVarLine(a, rs[i], i = 1 \/ rs[i].file # rs[i - 1].file),
             rs, i + 1)

FirstPoint(f) ==
    CHOOSE i \in 1..Len(variation_points) :
        /\ f \in variation_points[i].features
        /\ \A j \in 1..(i - 1) : f \notin variation_points[j].features

\* where the feature f is first written in the condition of the point i
FirstPlace(f, i) ==
    LET written == FeatureMatches(variation_points[i].condition, 1)
    IN  CHOOSE k \in 1..Len(written) :
            written[k] = f /\ \A h \in 1..(k - 1) : written[h] # f

\* the feature f is first mentioned earlier in the scan than the feature g
SeenBefore(f, g) ==
    \/ FirstPoint(f) < FirstPoint(g)
    \/ /\ FirstPoint(f) = FirstPoint(g)
       /\ FirstPlace(f, FirstPoint(f)) < FirstPlace(g, FirstPoint(g))

\* C17 as stated: the top features are ranked by count descending, and of
\* two features of equal count the one first mentioned earlier in the scan
\* ranks first, also when both are first seen in the condition of one
\* directive.
C17_Claim ==
    (prog = "var" /\ pc = "done") =>
        \A a, b \in 1..Len(top_features) :
            a < b =>
                \/ top_features[a][2] > top_features[b][2]
                \/ /\ top_features[a][2] = top_features[b][2]
                   /\ SeenBefore(top_features[a][1], top_features[b][1])

\* the lines read before the i-th variation point, in its own file, that
\* analyze_file handled as opening a block
OpenersBefore(i) ==
    {j \in 1..Len(scanned) :
        /\ scanned[j].file = variation_points[i].file
        /\ scanned[j].line < variation_points[i].line
        /\ scanned[j].kind \in Opening}

\* C18, the records: a variation point is never recorded deeper than the
\* number of blocks opened before it in its own file, so one with no block
\* opened before it in its file is recorded at depth 0, whatever earlier
\* files left open.
C18_OwnFileOnly ==
    prog = "var" =>
        \A i \in 1..Len(variation_points) :
            variation_points[i].nesting <= Cardinality(OpenersBefore(i))

\* C18, the step: when analyze_file starts on a file, the depth is 0 and the
\* stack is empty.
C18_FreshFile ==
    (prog = "var" /\ file_idx' # file_idx) =>
        current_nesting' = 0 /\ nesting_stack' = <<>>

\* C18: in CPPVariabilityAnalyzer the nesting state is local to one
\* analyze_file call: every file starts at depth 0 with an empty stack, and
\* blocks left open at the end of an earlier file never raise the nesting
\* recorded in a later file.
C18_Local == []C18_OwnFileOnly /\ [][C18_FreshFile]_vars

\* C18 witness: the first file ends with the block of "#ifdef FOO" open, and
\* the "#ifdef FOO" of the second file is recorded at depth 0.
C18_Witness ==
    /\ prog = "var"
    /\ Len(scanned) = 2 /\ Len(variation_points) = 2
    /\ scanned[1].file = PathOf(1) /\ scanned[1].kind = "ifdef"
    /\ scanned[2].file = PathOf(2) /\ scanned[2].kind = "ifdef"
    /\ variation_points[1].nesting = 0
    /\ variation_points[2].nesting = 0
    /\ current_nesting = 1

\* C19, the records: the variation points of one file form one run, the runs
\* follow the order in which the files are analyzed, and line numbers
\* increase strictly within a run.
C19_InOrder ==
    prog = "var" =>
        \A i, j \in 1..Len(variation_points) :
            i < j =>
                \/ variation_points[i].file < variation_points[j].file
                \/ /\ variation_points[i].file = variation_points[j].file
                   /\ variation_points[i].line < variation_points[j].line

\* C19, the step: a step leaves variation_points as it is or appends one
\* record, for the line just read, after the records already there; a line
\* handled as #endif appends none.
C19_AppendOnly ==
    prog = "var" =>
        /\ \/ UNCHANGED variation_points
           \/ /\ ReadsLine
              /\ Len(variation_points') = Len(variation_points) + 1
              /\ SubSeq(variation_points', 1, Len(variation_points))
                     = variation_points
              /\ variation_points'[Len(variation_points')].line = line_num'
              /\ variation_points'[Len(variation_points')].file = file_path
        /\ (ReadsLine /\ scanned'[Len(scanned')].kind = "endif")
               => UNCHANGED variation_points

\* C19: in CPPVariabilityAnalyzer variation_points is append-only and in
\* processing order: no step removes or rewrites an earlier record, the
\* records of one file form a contiguous run in the order the files are
\* analyzed, line numbers increase strictly within the run, and endif lines
\* add none.
C19_Sequence == []C19_InOrder /\ [][C19_AppendOnly]_vars

\* C19 witness: "#ifdef FOO" and "#else" read from one file, recorded in
\* that order with lines 1 and 2.
C19_Witness ==
    /\ prog = "var"
    /\ Len(variation_points) = 2
    /\ variation_points[1].type = "ifdef" /\ variation_points[1].line = 1
    /\ variation_points[2].type = "else" /\ variation_points[2].line = 2
    /\ variation_points[1].file = variation_points[2].file

\* C20, the count: files_analyzed is the number of files analyze_codebase is
\* done with, read with or without success.
C20_Counted ==
    prog = "code" =>
        files_analyzed = IF pc = "file" THEN file_idx - 1 ELSE file_idx

\* C20, the step: a step that prints "Error reading" counts the file and
\* leaves the counters, the stack frames, the defined macros and the
\* instruction records as the lines before the failure made them.
C20_FailureKeeps ==
    (prog = "code" /\ errors_logged' # errors_logged) =>
        /\ errors_logged' = errors_logged + 1
        /\ files_analyzed' = files_analyzed + 1
        /\ UNCHANGED <<directive_counts, defined_macros, undefined_macros,
                       condition_stack, gcode_stats, gcode_instructions>>

\* C20: in CodeAnalyzer.analyze_codebase files_analyzed is incremented
\* exactly once per visited file whether or not reading it succeeded, and
\* what the lines processed before a failure contributed is kept.
C20_FailedFiles == []C20_Counted /\ [][C20_FailureKeeps]_vars

\* C20 witness: the read of the first file fails after "#define FOO 1" and
\* "#ifdef FOO": the file is counted, FOO is defined, the frame of the
\* #ifdef is on the stack and both directives are counted.
C20_Witness ==
    /\ prog = "code" /\ pc = "walk"
    /\ file_idx = 1 /\ Len(scanned) = 2
    /\ errors_logged = 1
    /\ files_analyzed = 1
    /\ defined_macros = {FOO}
    /\ Len(condition_stack) = 1
    /\ Get(directive_counts, "define") = 1
    /\ Get(directive_counts, "ifdef") = 1

=============================================================================
